---- MODULE Spec2Model ----
(***************************************************************************)
(* Model of the reorder computation of backend/app/services/reorder.py    *)
(* (compute_rop, compute_status, compute_reorder_fields) and of the        *)
(* routes of backend/app/api/routes.py that store products, write the      *)
(* audit log and hand product snapshots to the computation.                *)
(*                                                                         *)
(* Spec      calls of the three functions with arguments from bounded sets *)
(* SpecStore the write routes as atomic requests, interleaved with         *)
(*           reorder_list requests that run their loop step by step        *)
(*                                                                         *)
(* avg_daily_demand is a Python float, so the arithmetic of compute_rop    *)
(* and of lead_demand is IEEE-754 binary64 arithmetic: every product and   *)
(* sum is rounded to the nearest double (ties to even) before math.ceil    *)
(* sees it.  A double is modelled exactly, as a sign and a fixed-point     *)
(* magnitude  i + f[1]/2^14 + f[2]/2^28 + f[3]/2^42 + f[4]/2^56.           *)
(* Every double d with d = 0 or 2^-4 <= |d| < 2^10 is such a number,       *)
(* which covers the values the bounded inputs below produce.               *)
(***************************************************************************)
EXTENDS Integers, Sequences, FiniteSets, TLC

\* ------------------------------------------------------------- bounds
\* avg_daily_demand inputs are the decimal numbers n / DemandDen (tenths).
DemandDen == 10
MaxLead == 25
MaxDemandNum == 22
MaxSafety == 2
MaxQty == 4
MaxRopArg == 4
\* the product store: rows, write requests, concurrent reorder_list requests
MaxProducts == 2
MaxAudit == 2

\* ------------------------------------------- binary64 (Python float)
LimbBase == 2^14

Pow2(n) == 2^n

\* floor(log2 i) for 1 <= i < 2^10
Log2(i) ==
  CHOOSE k \in 0..9 : Pow2(k) <= i /\ i < Pow2(k + 1)

Zero4 == <<0, 0, 0, 0>>

\* Number of low bits of f[4] that lie below the unit in the last place of
\* a double of magnitude i + f: the double keeps 53 significant bits.
DropBits(i, f) ==
  IF i >= 1 THEN Log2(i) + 4
  ELSE IF f[1] >= 8192 THEN 3
  ELSE IF f[1] >= 4096 THEN 2
  ELSE IF f[1] >= 2048 THEN 1
  ELSE 0

\* Magnitude i + f plus one more unit of size m / 2^56, carries propagated.
AddUlp(i, f, m) ==
  LET t4 == f[4] + m
      t3 == f[3] + (t4 \div LimbBase)
      t2 == f[2] + (t3 \div LimbBase)
      t1 == f[1] + (t2 \div LimbBase)
  IN  [i |-> i + (t1 \div LimbBase),
       f |-> <<t1 % LimbBase, t2 % LimbBase, t3 % LimbBase, t4 % LimbBase>>]

\* Round-to-nearest, ties-to-even, of the exact magnitude
\*   i + f + (rn / rd) / 2^56      (0 <= rn < rd)
\* to a double's magnitude.
RoundNearestEven(i, f, rn, rd) ==
  LET d    == DropBits(i, f)
      m    == Pow2(d)
      low  == f[4] % m
      kept == <<f[1], f[2], f[3], f[4] - low>>
      \* sign of (dropped part) - (half a unit in the last place)
      cmp  == 2 * (low * rd + rn) - m * rd
      odd  == ((f[4] \div m) % 2) = 1
      up   == cmp > 0 \/ (cmp = 0 /\ odd)
  IN  IF up THEN AddUlp(i, kept, m) ELSE [i |-> i, f |-> kept]

MkDouble(neg, mag) ==
  [neg |-> neg /\ (mag.i # 0 \/ mag.f # Zero4), i |-> mag.i, f |-> mag.f]

Abs(n) == IF n < 0 THEN -n ELSE n

\* float(n / den) as Python reads a decimal literal or a JSON number: the
\* double nearest to the rational n / den.
FloatOfRatio(n, den) ==
  LET a  == Abs(n)
      r0 == a % den
      q1 == (r0 * LimbBase) \div den
      r1 == (r0 * LimbBase) % den
      q2 == (r1 * LimbBase) \div den
      r2 == (r1 * LimbBase) % den
      q3 == (r2 * LimbBase) \div den
      r3 == (r2 * LimbBase) % den
      q4 == (r3 * LimbBase) \div den
      r4 == (r3 * LimbBase) % den
  IN  MkDouble(n < 0, RoundNearestEven(a \div den, <<q1, q2, q3, q4>>, r4, den))

\* float(n) for a small Python int: exact.
FloatOfInt(n) == MkDouble(n < 0, [i |-> Abs(n), f |-> Zero4])

\* x * n for a float x and an int n (Python converts n to float, then one
\* rounded binary64 multiplication).
FloatMulInt(x, n) ==
  LET a  == Abs(n)
      t4 == x.f[4] * a
      t3 == x.f[3] * a + (t4 \div LimbBase)
      t2 == x.f[2] * a + (t3 \div LimbBase)
      t1 == x.f[1] * a + (t2 \div LimbBase)
      ex == [i |-> x.i * a + (t1 \div LimbBase),
             f |-> <<t1 % LimbBase, t2 % LimbBase, t3 % LimbBase, t4 % LimbBase>>]
  IN  MkDouble(x.neg # (n < 0), RoundNearestEven(ex.i, ex.f, 0, 1))

\* x + n for a float x >= 0 and an int n >= 0: one rounded binary64 addition.
FloatAddInt(x, n) ==
  MkDouble(FALSE, RoundNearestEven(x.i + n, x.f, 0, 1))

\* x < 0 for a float x
FloatIsNegative(x) == x.neg

\* x == 0 (Python truthiness of a float: 0.0 is falsy)
FloatIsZero(x) == x.i = 0 /\ x.f = Zero4

\* int(math.ceil(x))
CeilInt(x) ==
  IF x.neg THEN -(x.i)
  ELSE IF x.f = Zero4 THEN x.i ELSE x.i + 1

\* ------------------------------------------------ services/reorder.py
\* compute_rop with the safety_stock < 0 test forgotten.
compute_rop_unchecked_safety(lead_time_days, avg_daily_demand, safety_stock) ==
  IF lead_time_days < 0 \/ FloatIsNegative(avg_daily_demand)
  THEN 0
  ELSE CeilInt(FloatMulInt(avg_daily_demand, lead_time_days)) + safety_stock

\* compute_rop with the safety stock left out of the sum.
compute_rop_without_safety(lead_time_days, avg_daily_demand, safety_stock) ==
  IF lead_time_days < 0 \/ FloatIsNegative(avg_daily_demand) \/ safety_stock < 0
  THEN 0
  ELSE CeilInt(FloatMulInt(avg_daily_demand, lead_time_days))

compute_rop(lead_time_days, avg_daily_demand, safety_stock) ==
  IF lead_time_days < 0 \/ FloatIsNegative(avg_daily_demand) \/ safety_stock < 0
  THEN 0
  ELSE CeilInt(FloatAddInt(FloatMulInt(avg_daily_demand, lead_time_days),
                           safety_stock))

\* compute_status with a strict comparison against the safety stock.
compute_status_strict(qty, rop, safety_stock) ==
  IF qty < safety_stock THEN "CRITICAL"
  ELSE IF qty <= rop THEN "WARNING"
  ELSE "OK"

\* compute_status with the two tests in the other order.
compute_status_warning_first(qty, rop, safety_stock) ==
  IF qty <= rop THEN "WARNING"
  ELSE IF qty <= safety_stock THEN "CRITICAL"
  ELSE "OK"

compute_status(qty, rop, safety_stock) ==
  IF qty <= safety_stock THEN "CRITICAL"
  ELSE IF qty <= rop THEN "WARNING"
  ELSE "OK"

\* A nullable column value / attribute: <<>> is None, <<v>> is the value v.
None == <<>>
Some(v) == <<v>>

\* x or 1: a null attribute defaulted to 1 instead of 0.
OrZero_default_one(x) == IF x = None \/ x[1] = 0 THEN 1 ELSE x[1]

\* Python's  x or 0  for an int attribute: None and 0 are falsy.
OrZero(x) == IF x = None \/ x[1] = 0 THEN 0 ELSE x[1]

\* Python's  float(x or 0.0)  for a float attribute: None and 0.0 are falsy.
FloatOrZero(x) == IF x = None \/ FloatIsZero(x[1]) THEN FloatOfInt(0) ELSE x[1]

Max(a, b) == IF a >= b THEN a ELSE b

\* lead_demand = int(math.ceil(demand * lead))
lead_demand(demand, lead) == CeilInt(FloatMulInt(demand, lead))

\* target = rop + lead_demand
target(rop, ld) == rop + ld

\* suggested without the clamp at 0.
suggested_unclamped(tgt, qty) == tgt - qty

\* suggested = max(0, target - qty)
suggested(tgt, qty) == Max(0, tgt - qty)

\* below_by without the clamp at 0.
below_by_unclamped(rop, qty) == rop - qty

\* below_by = max(0, rop - qty)
below_by(rop, qty) == Max(0, rop - qty)

compute_reorder_fields(p) ==
  LET lead   == OrZero(p.lead_time_days)
      demand == FloatOrZero(p.avg_daily_demand)
      safety == OrZero(p.safety_stock)
      qty    == OrZero(p.quantity)
      rop    == compute_rop(lead, demand, safety)
      status == compute_status(qty, rop, safety)
      ld     == lead_demand(demand, lead)
      tgt    == target(rop, ld)
  IN  [reorder_point     |-> rop,
       status            |-> status,
       target_stock      |-> tgt,
       suggested_reorder |-> suggested(tgt, qty),
       below_by          |-> below_by(rop, qty)]

\* ---------------------------------------------------------------- state
\* call: the engine call in progress, with its arguments and its return
\* value; demand_num is the decimal numerator (over DemandDen) the float
\* argument was read from, None for a null attribute.
VARIABLES call

\* ------------------------------------------------- the product store
\* products:   the rows of table products, in id order (id = index)
\* audit_logs: the rows of table audit_logs, in id order
\* req:        per reorder_list request in flight, the user, the Product
\*             objects its session loaded, its loop position, its items, and
\*             the last compute_reorder_fields call it made in its loop
\*             (argument and result); after the request, items is the body
\*             it returned
\* resp:       the last HTTP response sent: route, path parameter, status code, the user it
\*             answered, the HTTPException detail or the exception that made
\*             it a 500, and the body of a listing
\* txn:        per write request in flight, its session: the Product object
\*             as db.get loaded it (p), the object after the route's
\*             assignments (new), and the audit entry the route added to the
\*             session (log)
VARIABLES products, audit_logs, req, resp, txn

engine_vars == <<call>>
store_vars == <<products, audit_logs, req, resp, txn>>
vars == <<call, products, audit_logs, req, resp, txn>>

Idle == [fn |-> "none"]

\* Two reorder_list requests in flight at a time, each with its own session.
Readers == {"r1", "r2"}

NoRequest ==
  [pc |-> "idle", user |-> "none", rows |-> <<>>, k |-> 0, items |-> <<>>,
   last |-> None]

\* Two write requests in flight at a time, each with its own session.
Writers == {"w1", "w2"}

NoTxn == [pc |-> "idle", handler |-> "none", user |-> "none", id |-> 0,
          p |-> None, new |-> None, log |-> None]

NoResponse ==
  [handler |-> "none", product_id |-> 0, code |-> 0, user |-> "none",
   detail |-> "", body |-> <<>>]

StoreInit ==
  /\ products = <<>>
  /\ audit_logs = <<>>
  /\ req = [c \in Readers |-> NoRequest]
  /\ resp = NoResponse
  /\ txn = [w \in Writers |-> NoTxn]

Init ==
  /\ call = Idle
  /\ StoreInit

LeadArgs == -1..MaxLead
DemandNums == -1..MaxDemandNum
SafetyArgs == -1..MaxSafety
QtyArgs == -1..MaxQty
RopArgs == -1..MaxRopArg

Opt(S) == {None} \cup {Some(v) : v \in S}

\* The float attribute read from the decimal numerator n (None stays None).
DemandAttr(n) == IF n = None THEN None ELSE Some(FloatOfRatio(n[1], DemandDen))

CallComputeRop ==
  /\ call = Idle
  /\ \E l \in LeadArgs, n \in DemandNums, s \in SafetyArgs :
       call' = [fn |-> "compute_rop", lead_time_days |-> l, demand_num |-> n,
                avg_daily_demand |-> FloatOfRatio(n, DemandDen),
                safety_stock |-> s,
                ret |-> compute_rop(l, FloatOfRatio(n, DemandDen), s)]
  /\ UNCHANGED store_vars

CallComputeStatus ==
  /\ call = Idle
  /\ \E q \in QtyArgs, r \in RopArgs, s \in SafetyArgs :
       call' = [fn |-> "compute_status", qty |-> q, rop |-> r, safety_stock |-> s,
                ret |-> compute_status(q, r, s)]
  /\ UNCHANGED store_vars

CallComputeReorderFields ==
  /\ call = Idle
  /\ \E q \in Opt(QtyArgs), l \in Opt(LeadArgs), n \in Opt(DemandNums),
        s \in Opt(SafetyArgs) :
       LET p == [quantity |-> q, lead_time_days |-> l,
                 avg_daily_demand |-> DemandAttr(n), safety_stock |-> s]
       IN  call' = [fn |-> "compute_reorder_fields", p |-> p, demand_num |-> n,
                    ret |-> compute_reorder_fields(p)]
  /\ UNCHANGED store_vars

Return ==
  /\ call # Idle
  /\ call' = Idle
  /\ UNCHANGED store_vars

Next ==
  \/ CallComputeRop
  \/ CallComputeStatus
  \/ CallComputeReorderFields
  \/ Return

Spec == Init /\ [][Next]_vars

\* ------------------------------------------------------ api/routes.py
Users == {"manager", "viewer", "anonymous"}

\* Every route depending on get_current_user alone.
AuthCode_without_require_manager(user, manager_only) ==
  IF user = "anonymous" THEN 401 ELSE 200

\* get_current_user / require_manager: 401 without a valid token of an
\* existing user, 403 for a non-manager on a manager-only route.
AuthCode(user, manager_only) ==
  IF user = "anonymous" THEN 401
  ELSE IF manager_only /\ user # "manager" THEN 403
  ELSE 200

Skus == {"A", "B"}
StockQtys == {-1, 0, 3, 5}
ProductIds == 1..MaxProducts

\* Request bodies.  ProductCreate: every field has a value.  ProductUpdate:
\* only the keys the client sent (model_dump(exclude_unset=True)); a key sent
\* as null is present with value None.
CreatePayloads ==
  {[sku |-> k, name |-> "Widget", category |-> None, supplier |-> Some("ACME"),
    quantity |-> q, lead_time_days |-> m[1], demand_num |-> m[2],
    safety_stock |-> m[3]] :
     k \in Skus, q \in {-1, 0, 3}, m \in {<<0, 0, 0>>, <<2, 15, 1>>}}

UpdatePayloads ==
  { [k \in {} |-> None],
    [k \in {"lead_time_days"} |-> None],
    [k \in {"safety_stock"} |-> Some(-1)],
    [k \in {"lead_time_days", "avg_daily_demand"} |->
       IF k = "lead_time_days" THEN Some(3) ELSE Some(FloatOfRatio(5, DemandDen))] }

\* The table without ck_products_quantity_nonneg.
CheckConstraints_without_quantity(row) ==
  /\ row.lead_time_days = None \/ row.lead_time_days[1] >= 0
  /\ row.avg_daily_demand = None \/ ~FloatIsNegative(row.avg_daily_demand[1])
  /\ row.safety_stock = None \/ row.safety_stock[1] >= 0

\* The CHECK constraints of table products; a NULL passes a CHECK.
CheckConstraints(row) ==
  /\ row.quantity = None \/ row.quantity[1] >= 0
  /\ row.lead_time_days = None \/ row.lead_time_days[1] >= 0
  /\ row.avg_daily_demand = None \/ ~FloatIsNegative(row.avg_daily_demand[1])
  /\ row.safety_stock = None \/ row.safety_stock[1] >= 0

\* add_audit_log
AuditEntry(action, id, row, prev_qty, new_qty) ==
  [action |-> action, product_id |-> id, sku |-> row.sku,
   prev_quantity |-> prev_qty, new_quantity |-> new_qty,
   delta |-> new_qty - prev_qty]

\* response_model=Product: the response body needs non-null quantity,
\* lead_time_days, avg_daily_demand and safety_stock, or serialising it fails.
ResponseCode(row) ==
  IF row.quantity = None \/ row.lead_time_days = None
     \/ row.avg_daily_demand = None \/ row.safety_stock = None
  THEN 500 ELSE 200

\* The detail of the HTTPException, or the exception behind a 500.
Detail(code) ==
  CASE code = 401 -> "Not authenticated"
    [] code = 403 -> "Manager role required"
    [] code = 404 -> "Product not found"
    [] code = 400 -> "SKU already exists"
    [] OTHER -> ""

\* product_id is the route's path parameter, 0 for a route without one.
RespondAs(product_id, handler, code, user, detail, body) ==
  resp' = [handler |-> handler, product_id |-> product_id, code |-> code,
           user |-> user, detail |-> detail, body |-> body]

Respond(product_id, handler, code, user) ==
  RespondAs(product_id, handler, code, user, Detail(code), <<>>)

\* The response of a route with response_model=Product that returns row.
RespondProduct(product_id, handler, row, user) ==
  RespondAs(product_id, handler, ResponseCode(row), user,
            IF ResponseCode(row) = 500 THEN "ResponseValidationError" ELSE "", <<>>)

IntegrityError(product_id, handler, user) ==
  RespondAs(product_id, handler, 500, user, "IntegrityError", <<>>)

\* db.get(ProductModel, product_id), then "if not p"
Found_ignoring_is_active(id) == id <= Len(products)

\* db.get(ProductModel, product_id), then "if not p or not p.is_active"
Found(id) == id <= Len(products) /\ products[id].is_active

create_product(user, payload) ==
  \* skus carry no surrounding blanks here, so payload.sku.strip() is payload.sku
  LET auth == AuthCode(user, TRUE)
      row  == [sku |-> payload.sku,
               name |-> payload.name,
               category |-> payload.category,
               supplier |-> payload.supplier,
               quantity |-> Some(payload.quantity),
               lead_time_days |-> Some(payload.lead_time_days),
               avg_daily_demand |-> Some(FloatOfRatio(payload.demand_num, DemandDen)),
               safety_stock |-> Some(payload.safety_stock),
               is_active |-> TRUE]
      id   == Len(products) + 1
  IN  /\ UNCHANGED <<call, req, txn>>
      /\ IF auth # 200
         THEN Respond(0, "create_product", auth, user) /\ UNCHANGED <<products, audit_logs>>
         ELSE IF \E i \in 1..Len(products) :
                   products[i].sku = payload.sku /\ products[i].is_active
         THEN Respond(0, "create_product", 400, user) /\ UNCHANGED <<products, audit_logs>>
         ELSE IF \/ ~CheckConstraints(row)
                 \/ \E i \in 1..Len(products) : products[i].sku = payload.sku
         \* IntegrityError at the first commit: nothing is stored
         THEN IntegrityError(0, "create_product", user) /\ UNCHANGED <<products, audit_logs>>
         ELSE /\ Len(products) < MaxProducts
              /\ Len(audit_logs) < MaxAudit
              /\ products' = Append(products, row)
              /\ audit_logs' = Append(audit_logs,
                   AuditEntry("product_create", id, row, 0, OrZero(row.quantity)))
              /\ RespondProduct(0, "create_product", row, user)

update_product(user, product_id, payload) ==
  LET auth == AuthCode(user, TRUE)
  IN  /\ UNCHANGED <<call, req, txn>>
      /\ IF auth # 200
         THEN Respond(product_id, "update_product", auth, user) /\ UNCHANGED <<products, audit_logs>>
         ELSE IF ~Found(product_id)
         THEN Respond(product_id, "update_product", 404, user) /\ UNCHANGED <<products, audit_logs>>
         ELSE LET p   == products[product_id]
                  new == [k \in DOMAIN p |->
                            IF k \in DOMAIN payload THEN payload[k] ELSE p[k]]
              IN  IF ~CheckConstraints(new)
                  \* IntegrityError at commit: neither the row nor the audit entry is stored
                  THEN IntegrityError(product_id, "update_product", user)
                       /\ UNCHANGED <<products, audit_logs>>
                  ELSE /\ Len(audit_logs) < MaxAudit
                       /\ products' = [products EXCEPT ![product_id] = new]
                       /\ audit_logs' = Append(audit_logs,
                            AuditEntry("product_update", product_id, new,
                                       OrZero(p.quantity), OrZero(new.quantity)))
                       /\ RespondProduct(product_id, "update_product", new, user)

update_stock(user, product_id, quantity) ==
  LET auth == AuthCode(user, TRUE)
  IN  /\ UNCHANGED <<call, req, txn>>
      /\ IF auth # 200
         THEN Respond(product_id, "update_stock", auth, user) /\ UNCHANGED <<products, audit_logs>>
         ELSE IF ~Found(product_id)
         THEN Respond(product_id, "update_stock", 404, user) /\ UNCHANGED <<products, audit_logs>>
         ELSE LET p   == products[product_id]
                  new == [p EXCEPT !.quantity = Some(quantity)]
              IN  IF ~CheckConstraints(new)
                  THEN IntegrityError(product_id, "update_stock", user)
                       /\ UNCHANGED <<products, audit_logs>>
                  ELSE /\ Len(audit_logs) < MaxAudit
                       /\ products' = [products EXCEPT ![product_id] = new]
                       /\ audit_logs' = Append(audit_logs,
                            AuditEntry("stock_update", product_id, new,
                                       OrZero(p.quantity), quantity))
                       /\ RespondProduct(product_id, "update_stock", new, user)

delete_product(user, product_id) ==
  LET auth == AuthCode(user, TRUE)
  IN  /\ UNCHANGED <<call, req, txn>>
      /\ IF auth # 200
         THEN Respond(product_id, "delete_product", auth, user) /\ UNCHANGED <<products, audit_logs>>
         ELSE IF ~Found(product_id)
         THEN Respond(product_id, "delete_product", 404, user) /\ UNCHANGED <<products, audit_logs>>
         ELSE LET p == products[product_id]
              IN  /\ Len(audit_logs) < MaxAudit
                  /\ products' = [products EXCEPT ![product_id].is_active = FALSE]
                  /\ audit_logs' = Append(audit_logs,
                       AuditEntry("product_delete", product_id, p,
                                  OrZero(p.quantity), OrZero(p.quantity)))
                  /\ Respond(product_id, "delete_product", 200, user)

\* The attributes compute_reorder_fields reads of a loaded Product object.
Snapshot(o) ==
  [quantity |-> o.quantity, lead_time_days |-> o.lead_time_days,
   avg_daily_demand |-> o.avg_daily_demand, safety_stock |-> o.safety_stock]

\* A call that writes its normalized values back to the Product object.
call_compute_reorder_fields_normalizing(p) ==
  [p   |-> [quantity         |-> Some(OrZero(p.quantity)),
            lead_time_days   |-> Some(OrZero(p.lead_time_days)),
            avg_daily_demand |-> Some(FloatOrZero(p.avg_daily_demand)),
            safety_stock     |-> Some(OrZero(p.safety_stock))],
   ret |-> compute_reorder_fields(p)]

\* The whole effect of calling compute_reorder_fields(p): the attributes of
\* the object p after the call (the function assigns to none of them) and
\* the returned dict.
call_compute_reorder_fields(p) ==
  [p |-> p, ret |-> compute_reorder_fields(p)]

\* ReorderItem(...): quantity, lead_time_days, avg_daily_demand and
\* safety_stock are required int / float fields; None fails validation.
ReorderItemValid(o) ==
  /\ o.quantity # None /\ o.lead_time_days # None
  /\ o.avg_daily_demand # None /\ o.safety_stock # None

\* db.query(ProductModel).filter(is_active == True).all(): the session's
\* own Product objects, one per active row.
RECURSIVE ActiveRows(_)
ActiveRows(n) ==
  IF n = 0 THEN <<>>
  ELSE LET rest == ActiveRows(n - 1)
           r    == products[n]
       IN  IF r.is_active
           THEN Append(rest, [id |-> n, sku |-> r.sku, name |-> r.name,
                              category |-> r.category, supplier |-> r.supplier,
                              quantity |-> r.quantity,
                              lead_time_days |-> r.lead_time_days,
                              avg_daily_demand |-> r.avg_daily_demand,
                              safety_stock |-> r.safety_stock])
           ELSE rest

\* ReorderItem(id=p.id, ..., **fields)
ReorderItem(o, fields) ==
  [id |-> o.id, sku |-> o.sku, name |-> o.name, category |-> o.category,
   supplier |-> o.supplier, quantity |-> o.quantity[1],
   lead_time_days |-> o.lead_time_days[1],
   avg_daily_demand |-> o.avg_daily_demand[1],
   safety_stock |-> o.safety_stock[1], fields |-> fields]

\* reorder_list, up to and including the query
reorder_list_query(c, user) ==
  LET auth == AuthCode(user, FALSE)
  IN  /\ req[c].pc = "idle"
      /\ UNCHANGED <<call, products, audit_logs, txn>>
      /\ IF auth # 200
         THEN Respond(0, "reorder_list", auth, user) /\ UNCHANGED req
         ELSE /\ req' = [req EXCEPT ![c] =
                   [pc |-> "loop", user |-> user,
                    rows |-> ActiveRows(Len(products)), k |-> 1,
                    items |-> <<>>, last |-> None]]
              /\ UNCHANGED resp

\* reorder_list, one iteration of "for p in products"
reorder_list_step(c) ==
  /\ req[c].pc = "loop"
  /\ req[c].k <= Len(req[c].rows)
  /\ UNCHANGED <<call, products, audit_logs, txn>>
  /\ LET o   == req[c].rows[req[c].k]
         eff == call_compute_reorder_fields(Snapshot(o))
         o2  == [o EXCEPT !.quantity = eff.p.quantity,
                          !.lead_time_days = eff.p.lead_time_days,
                          !.avg_daily_demand = eff.p.avg_daily_demand,
                          !.safety_stock = eff.p.safety_stock]
         lst == Some([p |-> Snapshot(o), ret |-> eff.ret])
     IN  IF eff.ret.status # "OK" /\ ~ReorderItemValid(o2)
         \* pydantic ValidationError: the request ends with 500
         THEN /\ req' = [req EXCEPT ![c] = NoRequest]
              /\ RespondAs(0, "reorder_list", 500, req[c].user, "ValidationError", <<>>)
         ELSE /\ req' = [req EXCEPT
                   ![c].rows[req[c].k] = o2,
                   ![c].k = req[c].k + 1,
                   ![c].items = IF eff.ret.status # "OK"
                                THEN Append(@, ReorderItem(o2, eff.ret))
                                ELSE @,
                   ![c].last = lst]
              /\ UNCHANGED resp

\* reorder_list, "return items"
reorder_list_return(c) ==
  /\ req[c].pc = "loop"
  /\ req[c].k > Len(req[c].rows)
  /\ UNCHANGED <<call, products, audit_logs, txn>>
  /\ req' = [req EXCEPT ![c].pc = "idle", ![c].user = "none", ![c].rows = <<>>,
                        ![c].k = 0, ![c].last = None]
  /\ Respond(0, "reorder_list", 200, req[c].user)

\* The store under one manager's writes to the product of sku "A" and the
\* listings of two concurrent requests.
StoreNext ==
  \/ \E b \in {x \in CreatePayloads : x.sku = "A"} : create_product("manager", b)
  \/ \E i \in ProductIds, b \in UpdatePayloads : update_product("manager", i, b)
  \/ \E i \in ProductIds, q \in StockQtys : update_stock("manager", i, q)
  \/ \E i \in ProductIds : delete_product("manager", i)
  \/ \E c \in Readers, u \in Users : reorder_list_query(c, u)
  \/ \E c \in Readers : reorder_list_step(c)
  \/ \E c \in Readers : reorder_list_return(c)

SpecStore == Init /\ [][StoreNext]_vars

\* ------------------------------------------- the routes, one step each
\* list_products: the active rows, serialised as List[Product]
list_products(user) ==
  LET auth == AuthCode(user, FALSE)
      rows == ActiveRows(Len(products))
  IN  /\ UNCHANGED <<call, products, audit_logs, req, txn>>
      /\ IF auth # 200
         THEN Respond(0, "list_products", auth, user)
         ELSE IF \E i \in 1..Len(rows) : ResponseCode(rows[i]) = 500
         THEN RespondAs(0, "list_products", 500, user, "ResponseValidationError", <<>>)
         ELSE RespondAs(0, "list_products", 200, user, "", rows)

\* The whole loop of reorder_list over the loaded rows, from row k on: the
\* items, or the ValidationError of the first item that cannot be built.
RECURSIVE reorder_list_loop(_, _, _)
reorder_list_loop(rows, k, items) ==
  IF k > Len(rows) THEN [code |-> 200, items |-> items]
  ELSE LET o      == rows[k]
           fields == call_compute_reorder_fields(Snapshot(o)).ret
       IN  IF fields.status # "OK"
           THEN IF ~ReorderItemValid(o)
                THEN [code |-> 500, items |-> <<>>]
                ELSE reorder_list_loop(rows, k + 1, Append(items, ReorderItem(o, fields)))
           ELSE reorder_list_loop(rows, k + 1, items)

\* reorder_list as one request
reorder_list(user) ==
  LET auth == AuthCode(user, FALSE)
      ret  == reorder_list_loop(ActiveRows(Len(products)), 1, <<>>)
  IN  /\ UNCHANGED <<call, products, audit_logs, req, txn>>
      /\ IF auth # 200
         THEN Respond(0, "reorder_list", auth, user)
         ELSE IF ret.code = 500
         THEN RespondAs(0, "reorder_list", 500, user, "ValidationError", <<>>)
         ELSE RespondAs(0, "reorder_list", 200, user, "", ret.items)

\* "r.category or ''" / "r.supplier or ''"
OrEmpty(x) == IF x = None THEN "" ELSE x[1]

\* w.writerow([...]) of the header
CsvHeader ==
  <<"sku", "name", "category", "supplier", "quantity", "lead_time_days",
    "avg_daily_demand", "safety_stock", "reorder_point", "status",
    "target_stock", "suggested_reorder", "below_by">>

\* w.writerow([...]) of one item
CsvRow(r) ==
  <<r.sku, r.name, OrEmpty(r.category), OrEmpty(r.supplier), r.quantity,
    r.lead_time_days, r.avg_daily_demand, r.safety_stock,
    r.fields.reorder_point, r.fields.status, r.fields.target_stock,
    r.fields.suggested_reorder, r.fields.below_by>>

\* The lines reorder_list_csv writes for items.
CsvLines(items) ==
  <<CsvHeader>> \o [i \in 1..Len(items) |-> CsvRow(items[i])]

\* reorder_list_csv: "items = reorder_list(db=db)", the header, one line per
\* item
reorder_list_csv(user) ==
  LET auth == AuthCode(user, FALSE)
      ret  == reorder_list_loop(ActiveRows(Len(products)), 1, <<>>)
  IN  /\ UNCHANGED <<call, products, audit_logs, req, txn>>
      /\ IF auth # 200
         THEN Respond(0, "reorder_list_csv", auth, user)
         ELSE IF ret.code = 500
         THEN RespondAs(0, "reorder_list_csv", 500, user, "ValidationError", <<>>)
         ELSE RespondAs(0, "reorder_list_csv", 200, user, "", CsvLines(ret.items))

Min(a, b) == IF a <= b THEN a ELSE b

\* Audit rows n, n-1, ... (newest first) of one product or of all, at most
\* limit of them.
RECURSIVE AuditRowsDesc(_, _, _)
AuditRowsDesc(n, product_id, limit) ==
  IF n = 0 \/ limit = 0 THEN <<>>
  ELSE IF product_id = None \/ audit_logs[n].product_id = product_id[1]
       THEN <<[id |-> n, log |-> audit_logs[n]]>>
              \o AuditRowsDesc(n - 1, product_id, limit - 1)
       ELSE AuditRowsDesc(n - 1, product_id, limit)

AuditLimits == {0, 50}

\* list_audit_logs
list_audit_logs(user, product_id, limit) ==
  LET auth == AuthCode(user, FALSE)
      lim  == Max(1, Min(limit, 200))
  IN  /\ UNCHANGED <<call, products, audit_logs, req, txn>>
      /\ IF auth # 200
         THEN Respond(0, "list_audit_logs", auth, user)
         ELSE RespondAs(0, "list_audit_logs", 200, user, "",
                        AuditRowsDesc(Len(audit_logs), product_id, lim))

ApiNext ==
  \/ \E u \in Users, b \in CreatePayloads : create_product(u, b)
  \/ \E u \in Users, i \in ProductIds, b \in UpdatePayloads : update_product(u, i, b)
  \/ \E u \in Users, i \in ProductIds, q \in StockQtys : update_stock(u, i, q)
  \/ \E u \in Users, i \in ProductIds : delete_product(u, i)
  \/ \E u \in Users : list_products(u)
  \/ \E u \in Users : reorder_list(u)
  \/ \E u \in Users : reorder_list_csv(u)
  \/ \E u \in Users, i \in {None} \cup {Some(j) : j \in ProductIds}, n \in AuditLimits :
       list_audit_logs(u, i, n)

SpecApi == Init /\ [][ApiNext]_vars

\* The update bodies in which every key sent carries a value.
ValuedUpdatePayloads ==
  {b \in UpdatePayloads : \A k \in DOMAIN b : b[k] # None}

\* The routes under requests whose bodies carry numbers only (no null).
ValuedNext ==
  \/ \E u \in Users, b \in CreatePayloads : create_product(u, b)
  \/ \E u \in Users, i \in ProductIds, b \in ValuedUpdatePayloads : update_product(u, i, b)
  \/ \E u \in Users, i \in ProductIds, q \in StockQtys : update_stock(u, i, q)
  \/ \E u \in Users, i \in ProductIds : delete_product(u, i)
  \/ \E u \in Users : list_products(u)
  \/ \E u \in Users : reorder_list(u)
  \/ \E u \in Users : reorder_list_csv(u)
  \/ \E u \in Users, i \in {None} \cup {Some(j) : j \in ProductIds}, n \in AuditLimits :
       list_audit_logs(u, i, n)

SpecValued == Init /\ [][ValuedNext]_vars

\* ------------------------------ the write routes, statement by statement
\* Each write request runs in its own Session (get_db): it loads the Product
\* into the session, assigns to the object, adds the audit entry, and
\* commits.  Nothing orders the requests between the load and the commit.

\* The row after the session's flush: UPDATE products SET <the attributes
\* whose value the route changed> WHERE id = ..., applied to the row as it
\* is stored now.
Flush(stored, p, new) ==
  [k \in DOMAIN stored |-> IF new[k] # p[k] THEN new[k] ELSE stored[k]]

Load(w, handler, user, product_id, new, log) ==
  txn' = [txn EXCEPT ![w] =
            [pc |-> "loaded", handler |-> handler, user |-> user,
             id |-> product_id, p |-> Some(products[product_id]),
             new |-> Some(new), log |-> Some(log)]]

\* A route up to its db.commit(): authentication, db.get, the 404 check, the
\* assignments and add_audit_log.
Get(w, handler, user, product_id, new, log) ==
  LET auth == AuthCode(user, TRUE)
  IN  /\ txn[w].pc = "idle"
      /\ UNCHANGED <<call, products, audit_logs, req>>
      /\ IF auth # 200
         THEN Respond(product_id, handler, auth, user) /\ UNCHANGED txn
         ELSE IF ~Found(product_id)
         THEN Respond(product_id, handler, 404, user) /\ UNCHANGED txn
         ELSE Load(w, handler, user, product_id, new, log) /\ UNCHANGED resp

update_product_get(w, user, product_id, payload) ==
  LET p   == products[product_id]
      new == [k \in DOMAIN p |-> IF k \in DOMAIN payload THEN payload[k] ELSE p[k]]
  IN  Get(w, "update_product", user, product_id, new,
          AuditEntry("product_update", product_id, new,
                     OrZero(p.quantity), OrZero(new.quantity)))

update_stock_get(w, user, product_id, quantity) ==
  LET p   == products[product_id]
      new == [p EXCEPT !.quantity = Some(quantity)]
  IN  Get(w, "update_stock", user, product_id, new,
          AuditEntry("stock_update", product_id, new, OrZero(p.quantity), quantity))

delete_product_get(w, user, product_id) ==
  LET p   == products[product_id]
      new == [p EXCEPT !.is_active = FALSE]
  IN  Get(w, "delete_product", user, product_id, new,
          AuditEntry("product_delete", product_id, p,
                     OrZero(p.quantity), OrZero(p.quantity)))

\* db.commit() of a route that loaded a product, and its response
Commit(w, handler) ==
  LET t   == txn[w]
      row == Flush(products[t.id], t.p[1], t.new[1])
  IN  /\ t.pc = "loaded"
      /\ t.handler = handler
      /\ UNCHANGED <<call, req>>
      /\ txn' = [txn EXCEPT ![w] = NoTxn]
      /\ IF ~CheckConstraints(row)
         THEN IntegrityError(t.id, handler, t.user) /\ UNCHANGED <<products, audit_logs>>
         ELSE /\ Len(audit_logs) < MaxAudit
              /\ products' = [products EXCEPT ![t.id] = row]
              /\ audit_logs' = Append(audit_logs, t.log[1])
              /\ IF handler = "delete_product"
                 THEN Respond(t.id, handler, 200, t.user)
                 ELSE RespondProduct(t.id, handler, row, t.user)

update_product_commit(w) == Commit(w, "update_product")

update_stock_commit(w) == Commit(w, "update_stock")

delete_product_commit(w) == Commit(w, "delete_product")

\* create_product up to and including its first db.commit() and db.refresh(p)
create_product_insert(w, user, payload) ==
  LET auth == AuthCode(user, TRUE)
      row  == [sku |-> payload.sku,
               name |-> payload.name,
               category |-> payload.category,
               supplier |-> payload.supplier,
               quantity |-> Some(payload.quantity),
               lead_time_days |-> Some(payload.lead_time_days),
               avg_daily_demand |-> Some(FloatOfRatio(payload.demand_num, DemandDen)),
               safety_stock |-> Some(payload.safety_stock),
               is_active |-> TRUE]
      id   == Len(products) + 1
  IN  /\ txn[w].pc = "idle"
      /\ UNCHANGED <<call, audit_logs, req>>
      /\ IF auth # 200
         THEN Respond(0, "create_product", auth, user) /\ UNCHANGED <<products, txn>>
         ELSE IF \E i \in 1..Len(products) :
                   products[i].sku = payload.sku /\ products[i].is_active
         THEN Respond(0, "create_product", 400, user) /\ UNCHANGED <<products, txn>>
         ELSE IF \/ ~CheckConstraints(row)
                 \/ \E i \in 1..Len(products) : products[i].sku = payload.sku
         THEN IntegrityError(0, "create_product", user) /\ UNCHANGED <<products, txn>>
         ELSE /\ Len(products) < MaxProducts
              /\ products' = Append(products, row)
              /\ txn' = [txn EXCEPT ![w] =
                   [pc |-> "created", handler |-> "create_product", user |-> user,
                    id |-> id, p |-> Some(row), new |-> Some(row),
                    log |-> Some(AuditEntry("product_create", id, row, 0,
                                            OrZero(row.quantity)))]]
              /\ UNCHANGED resp

\* create_product: add_audit_log, the second db.commit(), and the response
create_product_audit(w) ==
  /\ txn[w].pc = "created"
  /\ Len(audit_logs) < MaxAudit
  /\ UNCHANGED <<call, products, req>>
  /\ audit_logs' = Append(audit_logs, txn[w].log[1])
  /\ txn' = [txn EXCEPT ![w] = NoTxn]
  /\ RespondProduct(0, "create_product", products[txn[w].id], txn[w].user)

\* Two overlapping write requests of the manager on the product of sku "A".
ConcNext ==
  \/ \E w \in Writers, b \in {x \in CreatePayloads : x.sku = "A"} :
       create_product_insert(w, "manager", b)
  \/ \E w \in Writers : create_product_audit(w)
  \/ \E w \in Writers, i \in ProductIds, b \in UpdatePayloads :
       update_product_get(w, "manager", i, b)
  \/ \E w \in Writers : update_product_commit(w)
  \/ \E w \in Writers, i \in ProductIds, q \in StockQtys :
       update_stock_get(w, "manager", i, q)
  \/ \E w \in Writers : update_stock_commit(w)
  \/ \E w \in Writers, i \in ProductIds : delete_product_get(w, "manager", i)
  \/ \E w \in Writers : delete_product_commit(w)

SpecConc == Init /\ [][ConcNext]_vars

\* ------------------------------------------------------------ properties
IsRop == call.fn = "compute_rop"
IsStatus == call.fn = "compute_status"
IsFields == call.fn = "compute_reorder_fields"

\* Smallest integer r with r >= num / den, in exact integer arithmetic.
CeilRatio(num, den) == -((-num) \div den)

\* A nullable value read as the spec reads it: null is 0.
NullIsZero(x) == IF x = None THEN 0 ELSE x[1]
NullIsZeroFloat(x) == IF x = None THEN FloatOfInt(0) ELSE x[1]

\* The snapshot with every null attribute replaced by its zero value.
Normalized(p) ==
  [quantity         |-> Some(NullIsZero(p.quantity)),
   lead_time_days   |-> Some(NullIsZero(p.lead_time_days)),
   avg_daily_demand |-> Some(NullIsZeroFloat(p.avg_daily_demand)),
   safety_stock     |-> Some(NullIsZero(p.safety_stock))]

\* The normalized inputs of the compute_reorder_fields call in progress.
NQty == NullIsZero(call.p.quantity)
NLead == NullIsZero(call.p.lead_time_days)
NSafety == NullIsZero(call.p.safety_stock)
NDemand == NullIsZeroFloat(call.p.avg_daily_demand)
NDemandNum == IF call.demand_num = None THEN 0 ELSE call.demand_num[1]

\* C1: compute_rop returns exactly 0 whenever at least one of its three
\* inputs is negative, whatever the other two are.
C1_NegativeInputGivesZero ==
  (IsRop /\ (call.lead_time_days < 0 \/ call.demand_num < 0 \/ call.safety_stock < 0))
    => call.ret = 0

\* C1 witness: a call with exactly one negative input (safety_stock) and the
\* other two positive has returned 0.
C1_Witness ==
  /\ IsRop
  /\ call.safety_stock < 0 /\ call.lead_time_days > 0 /\ call.demand_num > 0
  /\ call.ret = 0

\* C2: for non-negative inputs compute_rop returns the ceiling of
\* avg_daily_demand * lead_time_days + safety_stock, the smallest integer
\* not below it, avg_daily_demand being the decimal number demand_num / DemandDen.
C2_RopIsExactCeiling ==
  (IsRop /\ call.lead_time_days >= 0 /\ call.demand_num >= 0 /\ call.safety_stock >= 0)
    => call.ret = CeilRatio(call.demand_num * call.lead_time_days
                              + call.safety_stock * DemandDen, DemandDen)

\* C3: compute_status is first-match-wins: CRITICAL whenever
\* qty <= safety_stock (also when rop < safety_stock), otherwise WARNING
\* whenever qty <= rop, otherwise OK; the aggregator classifies its
\* normalized quantity the same way.
C3_StatusFirstMatchWins ==
  /\ IsStatus =>
       /\ call.ret \in {"OK", "WARNING", "CRITICAL"}
       /\ (call.ret = "CRITICAL") <=> (call.qty <= call.safety_stock)
       /\ (call.ret = "WARNING") <=>
            (call.qty > call.safety_stock /\ call.qty <= call.rop)
       /\ (call.ret = "OK") <=>
            (call.qty > call.safety_stock /\ call.qty > call.rop)
  /\ IsFields =>
       /\ call.ret.status \in {"OK", "WARNING", "CRITICAL"}
       /\ (NQty <= NSafety) => call.ret.status = "CRITICAL"
       /\ (NQty > NSafety /\ NQty <= call.ret.reorder_point)
            => call.ret.status = "WARNING"
       /\ (NQty > NSafety /\ NQty > call.ret.reorder_point)
            => call.ret.status = "OK"

\* C3 witness: CRITICAL returned for a quantity above the reorder point,
\* the reorder point being below the safety stock.
C3_Witness ==
  /\ IsStatus
  /\ call.rop < call.safety_stock
  /\ call.qty > call.rop /\ call.qty <= call.safety_stock
  /\ call.ret = "CRITICAL"

\* C4: compute_reorder_fields treats a null quantity, lead_time_days,
\* avg_daily_demand or safety_stock as 0: its result is the result for the
\* snapshot with nulls replaced by 0, and all five fields are computed from
\* the same normalized values.
C4_NullsAreZero ==
  IsFields =>
    LET rop == compute_rop(NLead, NDemand, NSafety)
        tgt == rop + CeilInt(FloatMulInt(NDemand, NLead))
    IN  /\ call.ret = compute_reorder_fields(Normalized(call.p))
        /\ call.ret = [reorder_point     |-> rop,
                       status            |-> compute_status(NQty, rop, NSafety),
                       target_stock      |-> tgt,
                       suggested_reorder |-> Max(0, tgt - NQty),
                       below_by          |-> Max(0, rop - NQty)]

\* C4 witness: a snapshot with null quantity and null lead_time_days (and a
\* positive demand and safety stock) has been computed as if both were 0.
C4_Witness ==
  /\ IsFields
  /\ call.p.quantity = None /\ call.p.lead_time_days = None
  /\ call.demand_num # None /\ NDemandNum > 0 /\ NSafety > 0
  /\ call.ret.reorder_point = NSafety
  /\ call.ret.status = "CRITICAL"

\* C5: target_stock = reorder_point + lead_demand with
\* lead_demand = ceil(avg_daily_demand * lead_time_days), so for non-negative
\* inputs target_stock = ceil(d*l + s) + ceil(d*l), d = demand_num / DemandDen.
C5_TargetIsRopPlusLeadDemand ==
  IsFields =>
    /\ call.ret.target_stock =
         call.ret.reorder_point + CeilRatio(NDemandNum * NLead, DemandDen)
    /\ (NLead >= 0 /\ NDemandNum >= 0 /\ NSafety >= 0) =>
         call.ret.target_stock =
           CeilRatio(NDemandNum * NLead + NSafety * DemandDen, DemandDen)
             + CeilRatio(NDemandNum * NLead, DemandDen)

\* C6: suggested_reorder = max(0, target_stock - quantity): never negative,
\* and 0 whenever quantity >= target_stock.
C6_SuggestedClamped ==
  IsFields =>
    /\ call.ret.suggested_reorder = Max(0, call.ret.target_stock - NQty)
    /\ call.ret.suggested_reorder >= 0
    /\ (NQty >= call.ret.target_stock) => call.ret.suggested_reorder = 0

\* C6 witness: an overstocked product (quantity above a positive target
\* stock) got suggested_reorder = 0.
C6_Witness ==
  /\ IsFields
  /\ call.ret.target_stock > 0
  /\ NQty > call.ret.target_stock
  /\ call.ret.suggested_reorder = 0

\* C7: below_by = max(0, reorder_point - quantity): never negative, 0
\* whenever quantity >= reorder_point, and 0 for every OK result.
C7_BelowByClamped ==
  IsFields =>
    /\ call.ret.below_by = Max(0, call.ret.reorder_point - NQty)
    /\ call.ret.below_by >= 0
    /\ (NQty >= call.ret.reorder_point) => call.ret.below_by = 0
    /\ (call.ret.status = "OK") => call.ret.below_by = 0

\* C7 witness: an OK product with a positive reorder point below its
\* quantity got below_by = 0.
C7_Witness ==
  /\ IsFields
  /\ call.ret.status = "OK"
  /\ call.ret.reorder_point > 0
  /\ NQty > call.ret.reorder_point
  /\ call.ret.below_by = 0

\* C8: for non-negative inputs the reorder point is >= safety_stock, so every
\* CRITICAL product with non-negative inputs has quantity <= reorder_point.
C8_RopAtLeastSafety ==
  /\ (IsRop /\ call.lead_time_days >= 0 /\ call.demand_num >= 0
            /\ call.safety_stock >= 0)
       => call.ret >= call.safety_stock
  /\ (IsFields /\ NLead >= 0 /\ NDemandNum >= 0 /\ NSafety >= 0) =>
       /\ call.ret.reorder_point >= NSafety
       /\ (call.ret.status = "CRITICAL") => NQty <= call.ret.reorder_point

\* C8 witness: a CRITICAL product with non-negative inputs, a positive safety
\* stock and a positive lead-time demand.
C8_Witness ==
  /\ IsFields
  /\ NLead > 0 /\ NDemandNum > 0 /\ NSafety > 0 /\ NQty >= 0
  /\ call.ret.status = "CRITICAL"
  /\ call.ret.reorder_point > NSafety

Severity(st) == CASE st = "OK" -> 0 [] st = "WARNING" -> 1 [] st = "CRITICAL" -> 2

\* C9: status is monotone in quantity: against the snapshot of the call in
\* progress, any snapshot differing only in quantity has a severity that is
\* not greater when its quantity is larger and not smaller when it is smaller.
C9_StatusMonotoneInQuantity ==
  IsFields =>
    \A q2 \in Opt(QtyArgs) :
      LET r2 == compute_reorder_fields([call.p EXCEPT !.quantity = q2])
      IN  /\ (NQty <= OrZero(q2)) =>
               Severity(r2.status) <= Severity(call.ret.status)
          /\ (OrZero(q2) <= NQty) =>
               Severity(call.ret.status) <= Severity(r2.status)

\* C9 witness: a snapshot whose reorder point fell back to 0 below its safety
\* stock (negative lead time) and whose quantity is above the safety stock.
C9_Witness ==
  /\ IsFields
  /\ NLead < 0 /\ NSafety > 0
  /\ call.ret.reorder_point < NSafety
  /\ NQty > NSafety
  /\ call.ret.status = "OK"

\* Reader c makes a compute_reorder_fields call in this step.
ComputeCallBy(c) ==
  /\ req[c].pc = "loop"
  /\ req[c].k <= Len(req[c].rows)
  /\ req'[c] # req[c]

\* C10, first half: any two calls whose snapshots are identical returned
\* identical results, whatever the store and the other requests did between.
C10_SameSnapshotSameResult ==
  \A c1, c2 \in Readers :
    (req[c1].last # None /\ req[c2].last # None
       /\ req[c1].last[1].p = req[c2].last[1].p)
      => req[c1].last[1].ret = req[c2].last[1].ret

\* C10, second half: a call changes no stored product, no audit entry, no
\* Product object of another session, and no attribute (null or not) of the
\* object it was given.
C10_CallChangesNothing ==
  \A c \in Readers :
    ComputeCallBy(c) =>
      /\ products' = products
      /\ audit_logs' = audit_logs
      /\ \A c2 \in Readers \ {c} : req'[c2] = req[c2]
      /\ req'[c].last # None =>
           /\ req'[c].rows = req[c].rows
           /\ req'[c].last[1].p = Snapshot(req[c].rows[req[c].k])

Authenticated == {"manager", "viewer"}

\* The ids of the active products of table ps whose status, computed from
\* the stored values, is not OK.
NonOkIds(ps) ==
  {i \in 1..Len(ps) :
     ps[i].is_active /\ compute_reorder_fields(Snapshot(ps[i])).status # "OK"}

\* body holds exactly one item for each id of ids and nothing else, each
\* with the fields computed from the values stored in ps.
OneItemEach(body, ids, ps) ==
  /\ Len(body) = Cardinality(ids)
  /\ \A i \in 1..Len(body) :
       /\ body[i].id \in ids
       /\ body[i].fields = compute_reorder_fields(Snapshot(ps[body[i].id]))
  /\ \A i, j \in 1..Len(body) : body[i].id = body[j].id => i = j

\* C11: every reorder_list request of an authenticated user returns exactly
\* one item for each active product that is not OK on the values stored at
\* the time of the request (so a listing after a committed write shows the
\* new values), and no item for an OK or inactive product.
C11_ListsEveryNonOk ==
  [][(resp'.handler = "reorder_list" /\ resp'.user \in Authenticated)
       => /\ resp'.code = 200
          /\ OneItemEach(resp'.body, NonOkIds(products'), products')]_vars

\* The columns of the export, in the order the export must have them.
ExportColumns ==
  <<"sku", "name", "category", "supplier", "quantity", "lead_time_days",
    "avg_daily_demand", "safety_stock", "reorder_point", "status",
    "target_stock", "suggested_reorder", "below_by">>

\* The value of column col of a reorder_list item (an absent category or
\* supplier is an empty cell).
ColumnOf(item, col) ==
  CASE col = "sku" -> item.sku
    [] col = "name" -> item.name
    [] col = "category" -> IF item.category = None THEN "" ELSE item.category[1]
    [] col = "supplier" -> IF item.supplier = None THEN "" ELSE item.supplier[1]
    [] col = "quantity" -> item.quantity
    [] col = "lead_time_days" -> item.lead_time_days
    [] col = "avg_daily_demand" -> item.avg_daily_demand
    [] col = "safety_stock" -> item.safety_stock
    [] col = "reorder_point" -> item.fields.reorder_point
    [] col = "status" -> item.fields.status
    [] col = "target_stock" -> item.fields.target_stock
    [] col = "suggested_reorder" -> item.fields.suggested_reorder
    [] col = "below_by" -> item.fields.below_by

\* lines is the header followed by one line per item, in the items' order,
\* each with the items' values in the columns' order.
HeaderThenRows(lines, items) ==
  /\ Len(lines) = 1 + Len(items)
  /\ lines[1] = ExportColumns
  /\ \A i \in 1..Len(items) :
       /\ Len(lines[i + 1]) = Len(ExportColumns)
       /\ \A j \in 1..Len(ExportColumns) :
            lines[i + 1][j] = ColumnOf(items[i], ExportColumns[j])

\* What reorder_list answers on the store as it is.
ListingNow == reorder_list_loop(ActiveRows(Len(products)), 1, <<>>)

\* C12: every reorder_list_csv request of an authenticated user emits the
\* header row followed by exactly one row per item reorder_list returns on
\* the same store, in the same order and with the thirteen columns in the
\* fixed order; these items are one per active non-OK product.
C12_CsvIsHeaderThenItemRows ==
  [][(resp'.handler = "reorder_list_csv" /\ resp'.user \in Authenticated)
       => /\ resp'.code = 200
          /\ ListingNow.code = 200
          /\ HeaderThenRows(resp'.body, ListingNow.items)
          /\ OneItemEach(ListingNow.items, NonOkIds(products), products)]_vars

\* Every stored product has a quantity, lead time, demand and safety stock,
\* none of them negative.
NonNegativeStored ==
  \A i \in 1..Len(products) :
    /\ products[i].quantity # None /\ products[i].quantity[1] >= 0
    /\ products[i].lead_time_days # None /\ products[i].lead_time_days[1] >= 0
    /\ products[i].avg_daily_demand # None
    /\ ~FloatIsNegative(products[i].avg_daily_demand[1])
    /\ products[i].safety_stock # None /\ products[i].safety_stock[1] >= 0

\* A request that is not answered 200 stores nothing: no product changes and
\* no audit entry is added.
RejectedStoresNothing ==
  resp'.code # 200 => UNCHANGED <<products, audit_logs>>

WriteRoutes == {"create_product", "update_product", "update_stock", "delete_product"}
ReadRoutes == {"list_products", "reorder_list", "reorder_list_csv", "list_audit_logs"}

\* A write route answers a user without the manager role 403, and a request
\* without a valid token of an existing user 401; a read route refuses no
\* authenticated user.
RoleDecidesAccess ==
  /\ (resp.handler \in WriteRoutes /\ resp.user = "viewer") => resp.code = 403
  /\ (resp.handler \in WriteRoutes \cup ReadRoutes /\ resp.user = "anonymous")
       => resp.code = 401
  /\ (resp.handler \in ReadRoutes /\ resp.user \in Authenticated)
       => resp.code \notin {401, 403}
  /\ (resp.handler \in WriteRoutes /\ resp.user = "manager")
       => resp.code \notin {401, 403}

\* Whatever changes a product or the audit log is a write route answering a
\* manager: a refused write and every read leave both unchanged.
OnlyManagerWrites ==
  (products' # products \/ audit_logs' # audit_logs)
    => /\ resp'.user = "manager"
       /\ resp'.handler \in WriteRoutes
       /\ resp'.code \notin {401, 403}

\* C14: create_product, update_product, update_stock and delete_product by
\* a non-manager are refused with 403 (401 without a valid user) and change
\* no product and no audit entry; list_products, reorder_list,
\* reorder_list_csv and list_audit_logs are open to every authenticated user
\* and change nothing.
C14_OnlyManagerWrites ==
  [](RoleDecidesAccess) /\ [][OnlyManagerWrites]_vars

\* C14 witness: a viewer's delete_product was answered 403 and the product
\* is still active, with the audit log holding its create entry only.
C14_Witness ==
  /\ resp.handler = "delete_product" /\ resp.user = "viewer" /\ resp.code = 403
  /\ Len(products) = 1 /\ products[1].is_active
  /\ Len(audit_logs) = 1

\* The audit action of each write route.
ActionOf(handler) ==
  CASE handler = "create_product" -> "product_create"
    [] handler = "update_product" -> "product_update"
    [] handler = "update_stock" -> "stock_update"
    [] handler = "delete_product" -> "product_delete"

\* Request w ends in this step with its last commit.
Completes(w) == txn[w].pc # "idle" /\ txn'[w].pc = "idle"

\* The entry e that the request of session t wrote describes the request:
\* its action and product, the quantity the request found (0 for a create)
\* as prev_quantity, the quantity stored after the request as new_quantity,
\* their difference as delta, which is 0 for product_update and
\* product_delete.
EntryDescribes(e, t) ==
  /\ e.action = ActionOf(t.handler)
  /\ e.product_id = t.id
  /\ e.prev_quantity = IF t.handler = "create_product" THEN 0
                       ELSE NullIsZero(t.p[1].quantity)
  /\ e.new_quantity = NullIsZero(products'[t.id].quantity)
  /\ e.delta = e.new_quantity - e.prev_quantity
  /\ t.handler \in {"update_product", "delete_product"} => e.delta = 0

\* C15: a write request that succeeds appends exactly one audit entry, of
\* its action and product, with prev_quantity the quantity stored before the
\* request (0 for create), new_quantity the quantity stored after it and
\* delta their difference (0 for update_product and delete_product); a
\* request answered 400, 401, 403 or 404 appends none; entries already
\* written are never changed or removed.
C15_OneEntryPerSuccessfulWrite ==
  [][/\ SubSeq(audit_logs', 1, Len(audit_logs)) = audit_logs
     /\ Len(audit_logs') <= Len(audit_logs) + 1
     /\ \A w \in Writers :
          (Completes(w) /\ resp'.code = 200) =>
            /\ Len(audit_logs') = Len(audit_logs) + 1
            /\ EntryDescribes(audit_logs'[Len(audit_logs')], txn[w])
     /\ audit_logs' # audit_logs =>
          /\ resp'.code \notin {400, 401, 403, 404}
          /\ \E w \in Writers : Completes(w)]_vars

\* The audit entries of product i, in id order.
EntriesOf(i) == SelectSeq(audit_logs, LAMBDA e : e.product_id = i)

\* The audit trail of product i is consistent with its stock: it starts with
\* the create entry, each entry continues from the quantity the entry before
\* it left, and the last entry leaves the quantity that is stored.
TrailConsistent(i) ==
  LET es == EntriesOf(i)
  IN  Len(es) > 0 =>
        /\ es[1].action = "product_create"
        /\ \A k \in 2..Len(es) : es[k].prev_quantity = es[k - 1].new_quantity
        /\ es[Len(es)].new_quantity = NullIsZero(products[i].quantity)

\* C16: under every interleaving of manager requests on one product, each
\* reading the product and then writing and committing, the product's audit
\* entries in id order start with product_create, chain prev_quantity to the
\* new_quantity before it, and end on the stored quantity.
C16_TrailConsistentWithStock ==
  \A i \in 1..Len(products) : TrailConsistent(i)

ProductRoutes == {"update_product", "update_stock", "delete_product"}

\* A delete_product answered 200 has set is_active to False and left the
\* row, its quantity and every other product as they were.
DeleteOnlyDeactivates ==
  (resp'.handler = "delete_product" /\ resp'.code = 200) =>
    /\ products[resp'.product_id].is_active
    /\ products' = [products EXCEPT ![resp'.product_id].is_active = FALSE]

\* A soft-deleted row stays as it is: it is not removed, not changed and not
\* made active again.
DeletedStaysDeleted ==
  /\ Len(products') >= Len(products)
  /\ \A i \in 1..Len(products) :
       ~products[i].is_active => products'[i] = products[i]

\* A manager's update_product, update_stock or delete_product on a
\* soft-deleted product is answered 404 and stores nothing.
DeletedIsNotFound ==
  (/\ resp'.handler \in ProductRoutes
   /\ resp'.user = "manager"
   /\ resp'.product_id \in 1..Len(products)
   /\ ~products[resp'.product_id].is_active)
    => /\ resp'.code = 404
       /\ UNCHANGED <<products, audit_logs>>

\* No listing answered while a product is soft-deleted shows it: not
\* list_products, not reorder_list, not the export (whose lines start with
\* the sku).
DeletedIsNotListed ==
  /\ (resp'.handler \in {"list_products", "reorder_list"} /\ resp'.code = 200)
       => \A k \in 1..Len(resp'.body) : products'[resp'.body[k].id].is_active
  /\ (resp'.handler = "reorder_list_csv" /\ resp'.code = 200)
       => \A k \in 2..Len(resp'.body) :
            \A i \in 1..Len(products') :
              products'[i].sku = resp'.body[k][1] => products'[i].is_active

\* C17: a successful delete_product sets is_active to False and keeps the
\* row and its quantity; from then on the product is in no list_products,
\* reorder_list or export answer, every update_product, update_stock and
\* delete_product on it is answered 404 and changes neither the product
\* nor the audit log, and nothing sets is_active back to True.
C17_SoftDeleteIsFinal ==
  [][/\ DeleteOnlyDeactivates
     /\ DeletedStaysDeleted
     /\ DeletedIsNotFound
     /\ DeletedIsNotListed]_vars

\* C17 witness: the product was created and soft-deleted, it still holds its
\* row and quantity, and a manager's update_stock on it was answered 404.
C17_Witness ==
  /\ Len(products) = 1 /\ ~products[1].is_active
  /\ products[1].quantity = Some(3)
  /\ Len(audit_logs) = 2 /\ audit_logs[2].action = "product_delete"
  /\ resp.handler = "update_stock" /\ resp.product_id = 1
  /\ resp.user = "manager" /\ resp.code = 404
====
